---- MODULE Spec2Model ----
(***************************************************************************)
(* Model of the clang-format playground samples:                           *)
(*   sample.cpp : max<T>, process_vector, math::advanced::power            *)
(*   sample.c   : add, print_array, main (malloc / fill / print / free)    *)
(*   sample.h   : find_max / find_min (declared only)                      *)
(* Each function is a small state machine over its own variables; the      *)
(* variables of the functions that a specification does not exercise stay  *)
(* at their idle values.                                                   *)
(***************************************************************************)
EXTENDS Integers, Sequences, FiniteSets

VARIABLES
    \* ---- sample.cpp : max<T>(a, b)
    max_pc,         \* "call" | "ret"
    max_a, max_b,   \* the operands, values of T
    max_r,          \* the returned value
    \* ---- sample.cpp : process_vector(vec)
    orig,           \* the vector as first passed in
    vec,            \* std::vector<int>& vec
    cout,           \* the line process_vector last printed
    calls,          \* number of completed process_vector calls
    \* ---- sample.cpp : math::advanced::power(base, exp)
    pow_pc,         \* "call" | "loop" | "done"
    base, exp,      \* the parameters
    result,         \* double result
    pow_i,          \* int i of the for loop
    mults,          \* number of times line 48 ran
    \* ---- sample.c : main / print_array
    pc,             \* position in main / print_array
    numbers,        \* int numbers[] = {1,2,3,4,5}
    size,           \* int size
    sum,            \* int result = add(x, y)
    dynamic_array,  \* "unset" | "null" | "live" | "freed"
    mem,            \* the contents of the malloc'ed block
    i,              \* int i of main's fill loop
    pa_arr,         \* print_array: which array arr points to
    pa_size,        \* print_array: int size
    pa_i,           \* print_array: int i
    pa_ret,         \* where print_array returns to
    out,            \* the line print_array is printing
    acc,            \* the last element access performed
    dynReads, dynWrites, frees,   \* accesses to / releases of the block
    ret,            \* main's return status, -1 while running
    \* ---- sample.h : find_max / find_min
    st_pc,          \* "call" | "ret"
    st_arr,         \* int* arr, with size = Len(st_arr)
    st_fn,          \* which function returned
    st_res          \* the returned value or "EmptyInputError"

maxVars  == <<max_pc, max_a, max_b, max_r>>
vecVars  == <<orig, vec, cout, calls>>
powVars  == <<pow_pc, base, exp, result, pow_i, mults>>
cVars    == <<pc, numbers, size, sum, dynamic_array, mem, i, pa_arr, pa_size,
              pa_i, pa_ret, out, acc, dynReads, dynWrites, frees, ret>>
statVars == <<st_pc, st_arr, st_fn, st_res>>
vars     == <<maxVars, vecVars, powVars, cVars, statVars>>

\* ------------------------------------------------------------------ bounds
MaxKey     == 3     \* keys of T range over 0..MaxKey
MaxPayload == 1     \* the part of a T value that operator> does not compare
MaxLen     == 4     \* longest enumerated vector / array
MaxVal     == 2     \* enumerated vector elements range over 0..MaxVal
MaxCalls   == 2     \* process_vector is applied at most this many times
MaxBase    == 2     \* bases range over -MaxBase..MaxBase
MaxExp     == 4     \* exponents range over -MaxNegExp..MaxExp
MaxNegExp  == 2
MaxGarbage == 1     \* a fresh malloc block holds values in 0..MaxGarbage

\* ----------------------------------------------------------------- helpers
Range(s) == {s[k] : k \in 1..Len(s)}

SeqsUpTo(S, n) == UNION {[1..k -> S] : k \in 0..n}

NoAccess == [kind |-> "none", arr |-> "none", idx |-> 0, cap |-> 1]

\* ================================================================ max<T>
\* A value of T: the key operator> compares, and the rest of the value.
\* For int the payload is absent (0).
TValues == [key : 0..MaxKey, payload : 0..MaxPayload]

IntT(n) == [key |-> n, payload |-> 0]

\* main's call max(x, y) with x = 10, y = 20, and the tie max(5, 5)
MainMaxArgs == {<<IntT(10), IntT(20)>>, <<IntT(5), IntT(5)>>}

Gt(x, y) == x.key > y.key

\* variant: >= instead of >, ties return the first argument
maxGe(a, b) == IF ~Gt(b, a) THEN a ELSE b

\* variant: the comparison reversed
maxLess(a, b) == IF Gt(b, a) THEN a ELSE b

max(a, b) == IF Gt(a, b) THEN a ELSE b

MaxIdle == max_pc = "idle" /\ max_a = IntT(0) /\ max_b = IntT(0) /\ max_r = IntT(0)

MaxInit ==
    /\ max_pc = "call"
    /\ \E args \in (TValues \X TValues) \cup MainMaxArgs :
          max_a = args[1] /\ max_b = args[2]
    /\ max_r = IntT(0)

MaxCall ==
    /\ max_pc = "call"
    /\ max_r' = max(max_a, max_b)
    /\ max_pc' = "ret"
    /\ UNCHANGED <<max_a, max_b>>

\* ======================================================== process_vector
\* std::sort(first, last): the ascending permutation, by insertion
RECURSIVE Insert(_, _)
Insert(x, s) ==
    IF s = <<>> THEN <<x>>
    ELSE IF x <= Head(s) THEN <<x>> \o s
    ELSE <<Head(s)>> \o Insert(x, Tail(s))

RECURSIVE Sort(_)
Sort(s) == IF s = <<>> THEN <<>> ELSE Insert(Head(s), Sort(Tail(s)))

\* std::unique(first, last): one pass that keeps the first element of every
\* run of equal neighbours, written contiguously from the start.  kept is
\* the retained prefix so far, k the next position of s to look at.
RECURSIVE UniqueScan(_, _, _)
UniqueScan(s, kept, k) ==
    IF k > Len(s) THEN kept
    ELSE IF kept # <<>> /\ kept[Len(kept)] = s[k]
         THEN UniqueScan(s, kept, k + 1)
         ELSE UniqueScan(s, Append(kept, s[k]), k + 1)

\* The result of std::unique: the range after the pass (the positions past
\* the new end keep the ints they held) and the offset of the returned
\* iterator.
Unique(s) ==
    LET kept == UniqueScan(s, <<>>, 1)
    IN  [seq |-> kept \o SubSeq(s, Len(kept) + 1, Len(s)), end |-> Len(kept)]

\* variant: the erase is left out, the vector keeps its tail
EraseNone(s, first, last) == s

\* vec.erase(first, last) with iterators at offsets first and last
Erase(s, first, last) == SubSeq(s, 1, first) \o SubSeq(s, last + 1, Len(s))

\* variant: the erase removes the retained prefix instead of the tail
SortUniqueEraseFront(v) ==
    LET u == Unique(Sort(v))
    IN  SubSeq(u.seq, u.end + 1, Len(u.seq))

\* lines 33-34
SortUniqueErase(v) ==
    LET u == Unique(Sort(v))
    IN  Erase(u.seq, u.end, Len(u.seq))

\* std::vector<int> numbers of main
MainNumbers == <<5, 2, 8, 2, 9, 1, 5, 3>>

VecIdle == orig = <<>> /\ vec = <<>> /\ cout = <<>> /\ calls = 0

VecInit ==
    /\ orig \in SeqsUpTo(0..MaxVal, MaxLen) \cup {MainNumbers}
    /\ vec = orig
    /\ cout = <<>>
    /\ calls = 0

process_vector ==
    /\ calls < MaxCalls
    /\ vec' = SortUniqueErase(vec)
    /\ cout' = vec'
    /\ calls' = calls + 1
    /\ UNCHANGED orig

\* ================================================= math::advanced::power
\* The doubles the model uses are small integers, which double arithmetic
\* represents and multiplies exactly.
\* variant: one iteration too many
LoopCondLe(k, e) == k <= e

\* variant: the exponent's magnitude drives the loop
LoopCondAbs(k, e) == k < (IF e < 0 THEN -e ELSE e)

\* line 47, the loop condition
LoopCond(k, e) == k < e

\* main's call power(2.0, 10)
MainPowerArgs == <<2, 10>>

PowIdle ==
    /\ pow_pc = "idle" /\ base = 0 /\ exp = 0
    /\ result = 0 /\ pow_i = 0 /\ mults = 0

PowInit ==
    /\ pow_pc = "call"
    /\ \E args \in ((-MaxBase..MaxBase) \X (-MaxNegExp..MaxExp))
                      \cup {MainPowerArgs} :
          base = args[1] /\ exp = args[2]
    /\ result = 0 /\ pow_i = 0 /\ mults = 0

\* line 46 and the loop's init-statement
PowerEnter ==
    /\ pow_pc = "call"
    /\ result' = 1
    /\ pow_i' = 0
    /\ pow_pc' = "loop"
    /\ UNCHANGED <<base, exp, mults>>

\* lines 47-49, one iteration
PowerLoop ==
    /\ pow_pc = "loop"
    /\ LoopCond(pow_i, exp)
    /\ result' = result * base
    /\ mults' = mults + 1
    /\ pow_i' = pow_i + 1
    /\ UNCHANGED <<pow_pc, base, exp>>

\* line 51
PowerReturn ==
    /\ pow_pc = "loop"
    /\ ~LoopCond(pow_i, exp)
    /\ pow_pc' = "done"
    /\ UNCHANGED <<base, exp, result, pow_i, mults>>

\* ======================================================== sample.c : main
add(a, b) == a + b

\* malloc(5 * sizeof(int)): the block holds this many ints
MallocElems == 5

\* the array a pointer refers to, and the number of elements it really has
Contents(a) == IF a = "numbers" THEN numbers ELSE mem

Cap(a) ==
    IF a = "numbers" THEN Len(numbers)
    ELSE IF dynamic_array \in {"live", "freed"} THEN Len(mem) ELSE 0

Access(kind, a, idx) == [kind |-> kind, arr |-> a, idx |-> idx, cap |-> Cap(a)]

\* what a read of a[idx] can yield: the element, or anything when the
\* index is outside the array
ReadValues(a, idx) ==
    IF 0 <= idx /\ idx < Cap(a) THEN {Contents(a)[idx + 1]} ELSE 0..MaxGarbage

CIdle ==
    /\ pc = "idle" /\ numbers = <<>> /\ size = 0 /\ sum = 0
    /\ dynamic_array = "unset" /\ mem = <<>> /\ i = 0
    /\ pa_arr = "none" /\ pa_size = 0 /\ pa_i = 0 /\ pa_ret = "none"
    /\ out = <<>> /\ acc = NoAccess
    /\ dynReads = 0 /\ dynWrites = 0 /\ frees = 0 /\ ret = -1

CInit ==
    /\ pc = "l15" /\ numbers = <<>> /\ size = 0 /\ sum = 0
    /\ dynamic_array = "unset" /\ mem = <<>> /\ i = 0
    /\ pa_arr = "none" /\ pa_size = 0 /\ pa_i = 0 /\ pa_ret = "none"
    /\ out = <<>> /\ acc = NoAccess
    /\ dynReads = 0 /\ dynWrites = 0 /\ frees = 0 /\ ret = -1

\* print_array(a, n) is entered; it returns to main at back
CallPrintArray(a, n, back) ==
    /\ pa_arr' = a
    /\ pa_size' = n
    /\ pa_i' = 0
    /\ pa_ret' = back
    /\ out' = <<>>
    /\ pc' = "pa"

\* lines 15-21: the sum, the array and the first print_array call
MainStart ==
    /\ pc = "l15"
    /\ sum' = add(10, 20)
    /\ numbers' = <<1, 2, 3, 4, 5>>
    /\ size' = Len(numbers')
    /\ CallPrintArray("numbers", size', "l24")
    /\ UNCHANGED <<dynamic_array, mem, i, acc, dynReads, dynWrites, frees, ret>>

\* variant: the loop runs one index past the end
PaCondLe(k, n) == k <= n

\* print_array line 8, the loop condition
PaCond(k, n) == k < n

\* print_array lines 8-10, one iteration: reads arr[i] and prints it
PrintArrayLoop ==
    /\ pc = "pa"
    /\ PaCond(pa_i, pa_size)
    /\ acc' = Access("read", pa_arr, pa_i)
    /\ \E v \in ReadValues(pa_arr, pa_i) : out' = Append(out, v)
    /\ dynReads' = IF pa_arr = "dynamic_array" THEN dynReads + 1 ELSE dynReads
    /\ pa_i' = pa_i + 1
    /\ UNCHANGED <<pc, numbers, size, sum, dynamic_array, mem, i, pa_arr,
                   pa_size, pa_ret, dynWrites, frees, ret>>

\* print_array line 11 and the return to main
PrintArrayReturn ==
    /\ pc = "pa"
    /\ ~PaCond(pa_i, pa_size)
    /\ pc' = pa_ret
    /\ UNCHANGED <<numbers, size, sum, dynamic_array, mem, i, pa_arr, pa_size,
                   pa_i, pa_ret, out, acc, dynReads, dynWrites, frees, ret>>

\* line 24: malloc succeeds with a block of indeterminate contents, or fails
Malloc ==
    /\ pc = "l24"
    /\ \/ /\ dynamic_array' = "live"
          /\ mem' \in [1..MallocElems -> 0..MaxGarbage]
       \/ /\ dynamic_array' = "null"
          /\ mem' = <<>>
    /\ pc' = "l25"
    /\ UNCHANGED <<numbers, size, sum, i, pa_arr, pa_size, pa_i, pa_ret, out,
                   acc, dynReads, dynWrites, frees, ret>>

\* variant: the early return is missing and main goes on with the null pointer
AllocFailedNoReturn ==
    /\ pc = "l25"
    /\ dynamic_array = "null"
    /\ i' = 0
    /\ pc' = "l30"
    /\ UNCHANGED <<numbers, size, sum, dynamic_array, mem, pa_arr, pa_size,
                   pa_i, pa_ret, out, acc, dynReads, dynWrites, frees, ret>>

\* lines 25-28: the allocation failed
AllocFailed ==
    /\ pc = "l25"
    /\ dynamic_array = "null"
    /\ ret' = 1
    /\ pc' = "done"
    /\ UNCHANGED <<numbers, size, sum, dynamic_array, mem, i, pa_arr, pa_size,
                   pa_i, pa_ret, out, acc, dynReads, dynWrites, frees>>

\* line 25 false, line 30 init-statement
AllocOk ==
    /\ pc = "l25"
    /\ dynamic_array # "null"
    /\ i' = 0
    /\ pc' = "l30"
    /\ UNCHANGED <<numbers, size, sum, dynamic_array, mem, pa_arr, pa_size,
                   pa_i, pa_ret, out, acc, dynReads, dynWrites, frees, ret>>

\* lines 30-32, one iteration: dynamic_array[i] = i * 2
FillLoop ==
    /\ pc = "l30"
    /\ i < 5
    /\ acc' = Access("write", "dynamic_array", i)
    /\ mem' = IF 0 <= i /\ i < Cap("dynamic_array")
              THEN [mem EXCEPT ![i + 1] = i * 2] ELSE mem
    /\ dynWrites' = dynWrites + 1
    /\ i' = i + 1
    /\ UNCHANGED <<pc, numbers, size, sum, dynamic_array, pa_arr, pa_size,
                   pa_i, pa_ret, out, dynReads, frees, ret>>

\* line 30 false, line 34: print_array(dynamic_array, 5)
FillDone ==
    /\ pc = "l30"
    /\ ~(i < 5)
    /\ CallPrintArray("dynamic_array", 5, "l35")
    /\ UNCHANGED <<numbers, size, sum, dynamic_array, mem, i, acc, dynReads,
                   dynWrites, frees, ret>>

\* variant: the block is never released
FreeMissing ==
    /\ pc = "l35"
    /\ pc' = "l37"
    /\ UNCHANGED <<numbers, size, sum, dynamic_array, mem, i, pa_arr, pa_size,
                   pa_i, pa_ret, out, acc, dynReads, dynWrites, frees, ret>>

\* line 35: free(dynamic_array)
Free ==
    /\ pc = "l35"
    /\ dynamic_array' = "freed"
    /\ frees' = frees + 1
    /\ pc' = "l37"
    /\ UNCHANGED <<numbers, size, sum, mem, i, pa_arr, pa_size, pa_i, pa_ret,
                   out, acc, dynReads, dynWrites, ret>>

\* line 37
Return0 ==
    /\ pc = "l37"
    /\ ret' = 0
    /\ pc' = "done"
    /\ UNCHANGED <<numbers, size, sum, dynamic_array, mem, i, pa_arr, pa_size,
                   pa_i, pa_ret, out, acc, dynReads, dynWrites, frees>>

\* ============================================ sample.h : find_max / find_min
\* variant: the scan stops before the last element
RECURSIVE ScanMaxShort(_, _, _)
ScanMaxShort(arr, k, best) ==
    IF k >= Len(arr) THEN best
    ELSE ScanMaxShort(arr, k + 1, IF arr[k] > best THEN arr[k] ELSE best)

RECURSIVE ScanMax(_, _, _)
ScanMax(arr, k, best) ==
    IF k > Len(arr) THEN best
    ELSE ScanMax(arr, k + 1, IF arr[k] > best THEN arr[k] ELSE best)

RECURSIVE ScanMin(_, _, _)
ScanMin(arr, k, best) ==
    IF k > Len(arr) THEN best
    ELSE ScanMin(arr, k + 1, IF arr[k] < best THEN arr[k] ELSE best)

find_max(arr) ==
    IF Len(arr) = 0 THEN "EmptyInputError" ELSE ScanMax(arr, 2, arr[1])

find_min(arr) ==
    IF Len(arr) = 0 THEN "EmptyInputError" ELSE ScanMin(arr, 2, arr[1])

StatIdle == st_pc = "idle" /\ st_arr = <<>> /\ st_fn = "none" /\ st_res = 0

StatInit ==
    /\ st_pc = "call"
    /\ st_arr \in SeqsUpTo(0..MaxVal, MaxLen)
    /\ st_fn = "none"
    /\ st_res = 0

CallFindMax ==
    /\ st_pc = "call"
    /\ st_res' = find_max(st_arr)
    /\ st_fn' = "find_max"
    /\ st_pc' = "ret"
    /\ UNCHANGED st_arr

CallFindMin ==
    /\ st_pc = "call"
    /\ st_res' = find_min(st_arr)
    /\ st_fn' = "find_min"
    /\ st_pc' = "ret"
    /\ UNCHANGED st_arr

\* ========================================================= specifications
MaxNext  == MaxCall /\ UNCHANGED <<vecVars, powVars, cVars, statVars>>
InitMax == MaxInit /\ VecIdle /\ PowIdle /\ CIdle /\ StatIdle
SpecMax == InitMax /\ [][MaxNext]_vars

VecNext  == process_vector /\ UNCHANGED <<maxVars, powVars, cVars, statVars>>
InitVec == MaxIdle /\ VecInit /\ PowIdle /\ CIdle /\ StatIdle
SpecVec == InitVec /\ [][VecNext]_vars

PowNext  ==
    \/ PowerEnter  /\ UNCHANGED <<maxVars, vecVars, cVars, statVars>>
    \/ PowerLoop   /\ UNCHANGED <<maxVars, vecVars, cVars, statVars>>
    \/ PowerReturn /\ UNCHANGED <<maxVars, vecVars, cVars, statVars>>
InitPow == MaxIdle /\ VecIdle /\ PowInit /\ CIdle /\ StatIdle
SpecPow == InitPow /\ [][PowNext]_vars
\* power is a sequential function: once called it keeps running
FairSpecPow == SpecPow /\ WF_vars(PowNext)

CNext ==
    \/ MainStart        /\ UNCHANGED <<maxVars, vecVars, powVars, statVars>>
    \/ PrintArrayLoop   /\ UNCHANGED <<maxVars, vecVars, powVars, statVars>>
    \/ PrintArrayReturn /\ UNCHANGED <<maxVars, vecVars, powVars, statVars>>
    \/ Malloc           /\ UNCHANGED <<maxVars, vecVars, powVars, statVars>>
    \/ AllocFailed      /\ UNCHANGED <<maxVars, vecVars, powVars, statVars>>
    \/ AllocOk          /\ UNCHANGED <<maxVars, vecVars, powVars, statVars>>
    \/ FillLoop         /\ UNCHANGED <<maxVars, vecVars, powVars, statVars>>
    \/ FillDone         /\ UNCHANGED <<maxVars, vecVars, powVars, statVars>>
    \/ Free             /\ UNCHANGED <<maxVars, vecVars, powVars, statVars>>
    \/ Return0          /\ UNCHANGED <<maxVars, vecVars, powVars, statVars>>
InitC == MaxIdle /\ VecIdle /\ PowIdle /\ CInit /\ StatIdle
SpecC == InitC /\ [][CNext]_vars

StatNext ==
    \/ CallFindMax /\ UNCHANGED <<maxVars, vecVars, powVars, cVars>>
    \/ CallFindMin /\ UNCHANGED <<maxVars, vecVars, powVars, cVars>>
InitStat == MaxIdle /\ VecIdle /\ PowIdle /\ CIdle /\ StatInit
SpecStat == InitStat /\ [][StatNext]_vars

\* ================================================================= claims
StrictlyAscending(s) == \A k \in 1..(Len(s) - 1) : s[k] < s[k + 1]

RECURSIVE Pow(_, _)
Pow(b, e) == IF e = 0 THEN 1 ELSE Pow(b, e - 1) * b

\* C1: after process_vector the vector is strictly ascending, holds exactly
\* the distinct values of the original vector, each once, so its length is
\* the number of distinct values; [5,2,8,2,9,1,5,3] becomes [1,2,3,5,8,9].
C1_Compact ==
    calls >= 1 =>
        /\ StrictlyAscending(vec)
        /\ Range(vec) = Range(orig)
        /\ Len(vec) = Cardinality(Range(orig))
        /\ (orig = MainNumbers => vec = <<1, 2, 3, 5, 8, 9>> /\ Len(vec) = 6)

C1_Witness ==
    calls = 1 /\ orig = MainNumbers /\ vec = <<1, 2, 3, 5, 8, 9>>

\* C2 as stated: max(a, b) returns a whenever a >= b, and b otherwise, so a
\* tie returns the first argument.
C2_TieReturnsFirst ==
    max_pc = "ret" =>
        IF ~Gt(max_b, max_a) THEN max_r = max_a ELSE max_r = max_b

\* C2 amended: max(a, b) returns a whenever a is strictly greater than b, and
\* b otherwise, so a tie returns the second argument.
C2_TieReturnsSecond ==
    max_pc = "ret" =>
        IF Gt(max_a, max_b) THEN max_r = max_a ELSE max_r = max_b

C2_Witness ==
    /\ max_pc = "ret"
    /\ max_a.key = max_b.key
    /\ max_a # max_b
    /\ max_r = max_b

\* C3: the result of max(a, b) is one of the two operands and is not less
\* than either of them; max(10, 20) = 20 and max(5, 5) = 5.
C3_MaxIsUpperOperand ==
    max_pc = "ret" =>
        /\ max_r \in {max_a, max_b}
        /\ ~Gt(max_a, max_r)
        /\ ~Gt(max_b, max_r)
        /\ (max_a = IntT(10) /\ max_b = IntT(20) => max_r = IntT(20))
        /\ (max_a = IntT(5) /\ max_b = IntT(5) => max_r = IntT(5))

C3_Witness ==
    max_pc = "ret" /\ max_a = IntT(10) /\ max_b = IntT(20) /\ max_r = IntT(20)

\* C4: for every base and every exponent e >= 0 power returns the product of
\* e copies of base (1 for e = 0), after exactly e multiplications;
\* power(2, 10) = 1024.
C4_PowerIsProduct ==
    exp >= 0 =>
        /\ pow_pc = "loop" =>
              pow_i <= exp /\ mults = pow_i /\ result = Pow(base, pow_i)
        /\ pow_pc = "done" =>
              /\ mults = exp
              /\ result = Pow(base, exp)
              /\ (exp = 0 => result = 1)
              /\ (base = 2 /\ exp = 10 => result = 1024)

C4_Witness ==
    pow_pc = "done" /\ base = 2 /\ exp = 10 /\ result = 1024 /\ mults = 10

\* C5: the malloc'ed block, once allocated, is released exactly once before
\* main returns, never a second time, and nothing reads, writes or releases
\* it after the release.
C5_ReleasedOnce ==
    /\ [](/\ frees <= 1
          /\ (dynamic_array = "freed") = (frees = 1)
          /\ (pc = "done" /\ dynamic_array \notin {"unset", "null"}
                => dynamic_array = "freed" /\ frees = 1))
    /\ [][dynamic_array = "freed"
            => UNCHANGED <<dynamic_array, mem, dynReads, dynWrites, frees>>]_vars

C5_Witness ==
    pc = "done" /\ ret = 0 /\ dynamic_array = "freed" /\ frees = 1

\* C6: when malloc returns NULL main returns 1 without reading, writing,
\* printing or releasing the block; it returns 0 only after the block was
\* allocated, filled, printed and released.
C6_AllocFailurePropagates ==
    /\ dynamic_array = "null" =>
          /\ pc \in {"l25", "done"}
          /\ dynReads = 0 /\ dynWrites = 0 /\ frees = 0
          /\ acc.arr # "dynamic_array"
          /\ pa_arr # "dynamic_array"
          /\ (pc = "done" => ret = 1)
    /\ ret = 0 =>
          /\ pc = "done"
          /\ dynamic_array = "freed" /\ frees = 1
          /\ dynWrites = 5 /\ mem = <<0, 2, 4, 6, 8>>
          /\ dynReads = 5 /\ out = <<0, 2, 4, 6, 8>>
    /\ ret = 1 => dynamic_array = "null"
    /\ (pc = "done") = (ret \in {0, 1})

C6_Witness ==
    pc = "done" /\ ret = 1 /\ dynamic_array = "null" /\ frees = 0

\* C7: for every non-empty array find_max returns an element of the array
\* that is >= every element, and find_min one that is <= every element.
C7_Extremum ==
    st_pc = "ret" /\ Len(st_arr) >= 1 =>
        /\ st_res \in Range(st_arr)
        /\ st_fn = "find_max" => \A x \in Range(st_arr) : st_res >= x
        /\ st_fn = "find_min" => \A x \in Range(st_arr) : st_res <= x

C7_Witness ==
    /\ st_pc = "ret" /\ st_fn = "find_max"
    /\ Len(st_arr) >= 3
    /\ st_arr[3] > st_arr[1] /\ st_arr[1] > st_arr[2]
    /\ st_res = st_arr[3]

\* C8: every element access of the C program is within the bounds of the
\* array accessed, print_array is passed the real element count (5) of the
\* array it prints, and print_array writes no element.
C8_InBounds ==
    /\ [](/\ acc.kind # "none" => 0 <= acc.idx /\ acc.idx < acc.cap
          /\ acc.kind = "write" => acc.arr = "dynamic_array" /\ acc.cap = 5
          /\ pc = "pa" => pa_size = Cap(pa_arr) /\ pa_size = 5)
    /\ [][pc = "pa" => /\ numbers' = numbers
                       /\ mem' = mem
                       /\ dynWrites' = dynWrites
                       /\ acc'.kind # "write"]_vars

C8_Witness ==
    /\ pc = "pa" /\ pa_arr = "dynamic_array"
    /\ acc = [kind |-> "read", arr |-> "dynamic_array", idx |-> 4, cap |-> 5]

\* C9: process_vector never grows the vector, and applying it again to its
\* own result changes nothing.
C9_Idempotent ==
    [][/\ Len(vec') <= Len(vec)
       /\ (calls >= 1 => vec' = vec)]_vars

C9_Witness ==
    calls = 2 /\ Len(vec) >= 2 /\ Len(vec) < Len(orig)

\* C10: power terminates for every exponent, and for a negative exponent the
\* loop body never runs and the call returns 1 whatever the base.
C10_NegativeExponent ==
    /\ <>(pow_pc = "done")
    /\ [](exp < 0 =>
            /\ mults = 0
            /\ pow_pc = "done" => result = 1)

C10_Witness ==
    pow_pc = "done" /\ exp < 0 /\ base = 2 /\ result = 1 /\ mults = 0

====
